---------------------------- MODULE Spec2Model ----------------------------
(***************************************************************************)
(* Model of go-header's heightSub (store/heightsub.go) and PeerTracker     *)
(* (p2p/peer_tracker.go).                                                  *)
(*                                                                         *)
(* The two components share no state.  SpecHS runs the heightSub           *)
(* operations and leaves the tracker's variables at their initial values;  *)
(* SpecPT runs the tracker's operations and leaves heightSub's alone.      *)
(* SpecSnap runs the tracker's operations while a result of peers() is     *)
(* held; SpecLoops runs track(), gc() and stop(ctx), SpecStopFair the same *)
(* under a fair scheduler; SpecBlock runs track() and gc() on the events   *)
(* of a host whose peers get blocked.                                      *)
(***************************************************************************)
EXTENDS Integers, Sequences, FiniteSets, TLC

(* ------------------------------ bounds --------------------------------- *)

\* number of concurrent Sub callers
NumCallers == 2
\* largest header height used in Sub and Pub calls
MaxHeight == 2
\* largest number of headers handed to one Pub call
MaxPubLen == 2

\* last instant of the clock
MaxTime == 3
\* size of the buffer of the event subscription
MaxEvents == 2
\* maxAwaitingTime (peer_tracker.go:25, time.Hour), in clock ticks
maxAwaitingTime == 1
\* maxPeerTrackerSize (peer_tracker.go:19, 100), scaled to the peers of the model
maxPeerTrackerSize == 1
\* defaultScore (peer_tracker.go:17)
defaultScore == 1

Callers == 1..NumCallers
Heights == 0..MaxHeight
\* remote peer identities; hostID is p.host.ID()
Peers == {"p1", "p2", "p3"}
hostID == "self"
\* peerScore enters the tracker only through the comparison with defaultScore
\* and through copies: a score below the default, the default, a score above it
Scores == {defaultScore - 1, defaultScore, defaultScore + 1}

VARIABLES
    \* ---- heightSub ----
    height,       \* hs.height (atomic.Uint64)
    heightReqs,   \* hs.heightReqs: height -> sequence of result channels
    chan,         \* the channel `resp` made by each caller's current Sub call
    pc,           \* where each caller is inside Sub
    subHeight,    \* the `height` argument of each caller's current Sub call
    ctxDone,      \* whether the ctx of each caller's current Sub call is cancelled
    ret,          \* what each caller's Sub call returned: (H, error)
    pubpc,        \* where the single publisher is inside Pub
    pubHeaders,   \* the `headers` argument of the publisher's latest Pub call
    fatal,        \* log.Fatal was reached: the process has exited
    inUse,        \* a Sub or Pub call has been made (SetHeight initialises before)
    \* ---- PeerTracker ----
    trackedPeers,       \* p.trackedPeers: peer.ID -> peerStat
    disconnectedPeers,  \* p.disconnectedPeers: peer.ID -> peerStat
    now,                \* time.Now()
    \* ---- holders of peers() results ----
    snapshot,     \* the records of the latest peers() result
    \* ---- PeerTracker: the background loops and stop ----
    trackpc,      \* where track() is: "seed", "subscribe", "select", or returned:
                  \* "failed" (Subscribe failed), "stopped" (p.ctx was done)
    gcpc,         \* where gc() is: "select", "done"
    ctxCancelled, \* p.ctx is cancelled
    done,         \* the number of tokens in the channel p.done
    stoppc,       \* where the stop(ctx) call is: "idle", "wait", "returned"
    stopI,        \* the loop counter i of stop
    stopCtx,      \* the ctx given to stop: "live", or cancelled "early" (before
                  \* both loops had sent their token) or "late"
    stopRet,      \* what stop returned: "none", "nil", "ctxErr"
    stored,       \* the peer list the pidstore holds
    \* ---- the libp2p host and the connection gater ----
    conns,        \* the peers the host has a connection to
    gated,        \* the peers connGater.BlockPeer has blocked
    events,       \* the buffer of subs.Out(): connectedness events not yet taken
    \* ---- history ----
    blocked,      \* the peers for which a blockPeer call has returned
    \* ---- history ----
    last          \* the tracker operation the latest step was, the branch it took
                  \* and the peer whose record it moved, created, removed or rejected

hsVars == <<height, heightReqs, chan, pc, subHeight, ctxDone, ret, pubpc,
            pubHeaders, fatal, inUse>>
ptVars == <<trackedPeers, disconnectedPeers, now>>
snapVars == <<snapshot>>
loopVars == <<trackpc, gcpc, ctxCancelled, done, stoppc, stopI, stopCtx, stopRet, stored>>
netVars == <<conns, gated, events>>
auxVars == <<snapVars, loopVars, netVars, blocked>>
vars == <<hsVars, ptVars, auxVars, last>>

(* --------------------------- heightSub --------------------------------- *)

\* A header is known to heightSub only through Height().
Header(k) == [height |-> k]
\* `var zero H`
zero == Header(0)

noRet == [hdr |-> zero, err |-> "none", via |-> "none"]

\* A Go map: the keys are the function's domain.
mapDelete(m, k) == [x \in (DOMAIN m) \ {k} |-> m[x]]
mapPut(m, k, v) == [x \in (DOMAIN m) \cup {k} |-> IF x = k THEN v ELSE m[x]]
emptyMap == [x \in {} |-> 0]

elapsedStrict(cur, h) == cur > h
\* `hs.Height() >= height`, the test of both checks in Sub
elapsed(cur, h) == cur >= h

recheckSkipped(cur, h) == FALSE
\* The same test made again once heightReqsLk is held, lines 51-56.
recheckElapsed(cur, h) == elapsed(cur, h)

pubOrderAny(cur, from) == TRUE
\* `height+1 != from` negated: the headers continue the current height
pubOrderOk(cur, from) == cur + 1 = from

\* The contiguous run of headers from..from+ln-1.
headerRun(from, ln) == [i \in 1..ln |-> Header(from + i - 1)]

\* The arguments of the Pub calls: every run of at most MaxPubLen headers of
\* heights up to MaxHeight, the empty one included.
pubInputs ==
    {headerRun(x[1], x[2]) :
        x \in {y \in (1..MaxHeight) \X (0..MaxPubLen) : y[1] + y[2] - 1 <= MaxHeight}}

\* The heights whose bucket a Pub of `headers` fulfils.
pubBuckets(reqs, headers) ==
    LET ln   == Len(headers)
        from == headers[1].height
        to   == headers[ln].height
    IN  IF ln = 1
        THEN {from} \cap DOMAIN reqs
        ELSE {k \in DOMAIN reqs : k >= from /\ k <= to}

\* The header a bucket receives: headers[0] on the single-header path,
\* headers[height-from] on the ranged path (Go indexes from 0).
pubHeaderFor(headers, k) ==
    IF Len(headers) = 1 THEN headers[1] ELSE headers[(k - headers[1].height) + 1]

\* The bucket each registered channel sits in.
bucketOf(reqs, c) == CHOOSE k \in DOMAIN reqs : \E i \in 1..Len(reqs[k]) : reqs[k][i] = c

\* Channels after the sends of Pub.
pubSend(reqs, chans, headers) ==
    LET hit == pubBuckets(reqs, headers)
        to  == UNION {{reqs[k][i] : i \in 1..Len(reqs[k])} : k \in hit}
    IN  [c \in Callers |->
            IF c \in to
            THEN Append(chans[c], pubHeaderFor(headers, bucketOf(reqs, c)))
            ELSE chans[c]]

pubDeleteNone(reqs, headers) == reqs
\* The pending-request map after the deletes of Pub.
pubDelete(reqs, headers) ==
    LET hit == pubBuckets(reqs, headers)
    IN  [k \in (DOMAIN reqs) \ hit |-> reqs[k]]

\* A send on a full one-slot channel blocks.
pubCanSend(reqs, chans, headers) ==
    \A k \in pubBuckets(reqs, headers) :
        \A i \in 1..Len(reqs[k]) : Len(chans[reqs[k][i]]) = 0

InitHS ==
    /\ height = 0
    /\ heightReqs = emptyMap
    /\ chan = [c \in Callers |-> <<>>]
    /\ pc = [c \in Callers |-> "idle"]
    /\ subHeight = [c \in Callers |-> 0]
    /\ ctxDone = [c \in Callers |-> FALSE]
    /\ ret = [c \in Callers |-> noRet]
    /\ pubpc = "idle"
    /\ pubHeaders = <<>>
    /\ fatal = FALSE
    /\ inUse = FALSE

\* SetHeight, used to initialise heightSub before Sub and Pub are called.
SetHeight(h) ==
    /\ ~fatal /\ ~inUse
    /\ height' = h
    /\ UNCHANGED <<heightReqs, chan, pc, subHeight, ctxDone, ret, pubpc,
                   pubHeaders, fatal, inUse>>
    /\ UNCHANGED <<ptVars, auxVars, last>>

\* Sub, lines 45-48: the check made before the lock is taken.
SubCheck(c, h) ==
    /\ ~fatal
    /\ pc[c] = "idle"
    /\ subHeight' = [subHeight EXCEPT ![c] = h]
    /\ IF elapsed(height, h)
       THEN /\ pc' = [pc EXCEPT ![c] = "done"]
            /\ ret' = [ret EXCEPT ![c] = [hdr |-> zero, err |-> "errElapsedHeight", via |-> "check"]]
       ELSE /\ pc' = [pc EXCEPT ![c] = "lock"]
            /\ ret' = ret
    /\ inUse' = TRUE
    /\ UNCHANGED <<height, heightReqs, chan, ctxDone, pubpc, pubHeaders, fatal>>
    /\ UNCHANGED <<ptVars, auxVars, last>>

\* Sub, lines 50-60: under the lock, the second check and the registration.
SubRegister(c) ==
    /\ ~fatal
    /\ pc[c] = "lock"
    /\ IF recheckElapsed(height, subHeight[c])
       THEN /\ pc' = [pc EXCEPT ![c] = "done"]
            /\ ret' = [ret EXCEPT ![c] = [hdr |-> zero, err |-> "errElapsedHeight", via |-> "recheck"]]
            /\ ctxDone' = [ctxDone EXCEPT ![c] = FALSE]
            /\ UNCHANGED <<heightReqs, chan>>
       ELSE /\ chan' = [chan EXCEPT ![c] = <<>>]
            /\ heightReqs' =
                 mapPut(heightReqs, subHeight[c],
                        IF subHeight[c] \in DOMAIN heightReqs
                        THEN Append(heightReqs[subHeight[c]], c)
                        ELSE <<c>>)
            /\ pc' = [pc EXCEPT ![c] = "select"]
            /\ UNCHANGED <<ret, ctxDone>>
    /\ UNCHANGED <<height, subHeight, pubpc, pubHeaders, fatal, inUse>>
    /\ UNCHANGED <<ptVars, auxVars, last>>

\* Sub, lines 63-64: the select takes the header from the channel.
SubRecv(c) ==
    /\ ~fatal
    /\ pc[c] = "select"
    /\ Len(chan[c]) > 0
    /\ ret' = [ret EXCEPT ![c] = [hdr |-> Head(chan[c]), err |-> "nil", via |-> "resp"]]
    /\ chan' = [chan EXCEPT ![c] = Tail(chan[c])]
    /\ pc' = [pc EXCEPT ![c] = "done"]
    /\ ctxDone' = [ctxDone EXCEPT ![c] = FALSE]
    /\ UNCHANGED <<height, heightReqs, subHeight, pubpc, pubHeaders, fatal, inUse>>
    /\ UNCHANGED <<ptVars, auxVars, last>>

\* The caller's context is cancelled while its Sub call is in progress.
Cancel(c) ==
    /\ ~fatal
    /\ pc[c] \in {"lock", "select"}
    /\ ~ctxDone[c]
    /\ ctxDone' = [ctxDone EXCEPT ![c] = TRUE]
    /\ UNCHANGED <<height, heightReqs, chan, pc, subHeight, ret, pubpc,
                   pubHeaders, fatal, inUse>>
    /\ UNCHANGED <<ptVars, auxVars, last>>

\* Sub, line 65: the select takes the ctx.Done() case.
SubCtxDone(c) ==
    /\ ~fatal
    /\ pc[c] = "select"
    /\ ctxDone[c]
    /\ pc' = [pc EXCEPT ![c] = "unreg"]
    /\ UNCHANGED <<height, heightReqs, chan, subHeight, ctxDone, ret, pubpc,
                   pubHeaders, fatal, inUse>>
    /\ UNCHANGED <<ptVars, auxVars, last>>

\* Sub, lines 67-70: under the lock, delete(hs.heightReqs, height).
SubUnregister(c) ==
    /\ ~fatal
    /\ pc[c] = "unreg"
    /\ heightReqs' = mapDelete(heightReqs, subHeight[c])
    /\ ret' = [ret EXCEPT ![c] = [hdr |-> zero, err |-> "ctxErr", via |-> "ctx"]]
    /\ pc' = [pc EXCEPT ![c] = "done"]
    /\ chan' = [chan EXCEPT ![c] = <<>>]
    /\ ctxDone' = [ctxDone EXCEPT ![c] = FALSE]
    /\ UNCHANGED <<height, subHeight, pubpc, pubHeaders, fatal, inUse>>
    /\ UNCHANGED <<ptVars, auxVars, last>>

\* The caller has its result and is free to call Sub again.
SubReturn(c) ==
    /\ ~fatal
    /\ pc[c] = "done"
    /\ pc' = [pc EXCEPT ![c] = "idle"]
    /\ ret' = [ret EXCEPT ![c] = noRet]
    /\ subHeight' = [subHeight EXCEPT ![c] = 0]
    /\ UNCHANGED <<height, heightReqs, chan, ctxDone, pubpc, pubHeaders, fatal,
                   inUse>>
    /\ UNCHANGED <<ptVars, auxVars, last>>

\* Pub, lines 79-90: the empty input, the order check and SetHeight(to).
PubCall(headers) ==
    /\ ~fatal
    /\ pubpc = "idle"
    /\ pubHeaders' = headers
    /\ inUse' = TRUE
    /\ IF Len(headers) = 0
       THEN UNCHANGED <<height, pubpc, fatal>>
       ELSE IF ~pubOrderOk(height, headers[1].height)
            THEN /\ fatal' = TRUE
                 /\ UNCHANGED <<height, pubpc>>
            ELSE /\ height' = headers[Len(headers)].height
                 /\ pubpc' = "deliver"
                 /\ fatal' = fatal
    /\ UNCHANGED <<heightReqs, chan, pc, subHeight, ctxDone, ret>>
    /\ UNCHANGED <<ptVars, auxVars, last>>

\* Pub, lines 92-121: under the lock, fulfil and delete the matching buckets.
PubDeliver ==
    /\ ~fatal
    /\ pubpc = "deliver"
    /\ pubCanSend(heightReqs, chan, pubHeaders)
    /\ chan' = pubSend(heightReqs, chan, pubHeaders)
    /\ heightReqs' = pubDelete(heightReqs, pubHeaders)
    /\ pubpc' = "idle"
    /\ UNCHANGED <<height, pc, subHeight, ctxDone, ret, pubHeaders, fatal, inUse>>
    /\ UNCHANGED <<ptVars, auxVars, last>>

(* --------------------------- PeerTracker ------------------------------- *)

\* time.Time{}: the pruneDeadline of a peerStat that never disconnected.
zeroTime == 0

\* &peerStat{peerID: pID, peerScore: defaultScore}
newStat(pID) == [peerID |-> pID, peerScore |-> defaultScore, pruneDeadline |-> zeroTime]

noOp == [op |-> "init", peer |-> "none", case |-> "none"]

\* The capacity test of connected.
trackerFullLoose(tracked, disc) ==
    /\ Cardinality(DOMAIN tracked) + Cardinality(DOMAIN disc) > maxPeerTrackerSize + 1
    /\ Cardinality(DOMAIN tracked) > Cardinality(DOMAIN disc)
trackerFull(tracked, disc) ==
    /\ Cardinality(DOMAIN tracked) + Cardinality(DOMAIN disc) > maxPeerTrackerSize
    /\ Cardinality(DOMAIN tracked) > Cardinality(DOMAIN disc)

connectedStatFresh(pID, disc) == newStat(pID)
connectedStatCleared(pID, disc) ==
    IF pID \in DOMAIN disc
    THEN [disc[pID] EXCEPT !.pruneDeadline = zeroTime]
    ELSE newStat(pID)
\* The record connected stores: the disconnected peer's own, or a new one.
connectedStat(pID, disc) == IF pID \in DOMAIN disc THEN disc[pID] ELSE newStat(pID)

connectedDiscKeep(pID, disc) == disc
\* disconnectedPeers after connected: delete(p.disconnectedPeers, pID) when present.
connectedDisc(pID, disc) == IF pID \in DOMAIN disc THEN mapDelete(disc, pID) ELSE disc

\* stats.pruneDeadline = time.Now().Add(maxAwaitingTime)
disconnectedStat(stats, t) == [stats EXCEPT !.pruneDeadline = t + maxAwaitingTime]

expiredLate(stat, t) == stat.pruneDeadline + 1 < t
\* peer.pruneDeadline.Before(now)
expired(stat, t) == stat.pruneDeadline < t

lowScoreStrict(stat) == stat.peerScore < defaultScore
\* peer.peerScore <= defaultScore
lowScore(stat) == stat.peerScore <= defaultScore

\* gc's first loop: the disconnected peers that are kept.
gcDisconnected(disc, t) == [q \in {q \in DOMAIN disc : ~expired(disc[q], t)} |-> disc[q]]
\* gc's second loop: the tracked peers that are kept.
gcTracked(tracked) == [q \in {q \in DOMAIN tracked : ~lowScore(tracked[q])} |-> tracked[q]]

\* What a sweep removes.
gcCase(tracked, disc, t) ==
    LET old == \E q \in DOMAIN disc : expired(disc[q], t)
        low == \E q \in DOMAIN tracked : lowScore(tracked[q])
    IN  IF old THEN (IF low THEN "both" ELSE "expired")
        ELSE (IF low THEN "lowScore" ELSE "none")

InitPT ==
    /\ trackedPeers = emptyMap
    /\ disconnectedPeers = emptyMap
    /\ now = 1

\* connected(pID) on the maps; transient: some connection to pID has
\* Stat().Transient.
connectedMaps(pID, transient) ==
       IF pID = hostID
       THEN /\ last' = [op |-> "connected", peer |-> "none", case |-> "self"]
            /\ UNCHANGED <<trackedPeers, disconnectedPeers>>
       ELSE IF transient
       THEN /\ last' = [op |-> "connected", peer |-> "none", case |-> "transient"]
            /\ UNCHANGED <<trackedPeers, disconnectedPeers>>
       ELSE IF trackerFull(trackedPeers, disconnectedPeers)
       THEN /\ last' = [op |-> "connected", peer |-> pID, case |-> "full"]
            /\ UNCHANGED <<trackedPeers, disconnectedPeers>>
       ELSE /\ trackedPeers' =
                 mapPut(trackedPeers, pID, connectedStat(pID, disconnectedPeers))
            /\ disconnectedPeers' = connectedDisc(pID, disconnectedPeers)
            /\ last' = [op |-> "connected", peer |-> pID,
                        case |-> IF pID \in DOMAIN disconnectedPeers
                                 THEN "moved" ELSE "new"]

\* connected(pID), called by any goroutine.
connected(pID, transient) ==
    /\ connectedMaps(pID, transient)
    /\ UNCHANGED <<now, hsVars, auxVars>>

\* disconnected(pID) on the maps.
disconnectedMaps(pID) ==
       IF pID \notin DOMAIN trackedPeers
       THEN /\ last' = [op |-> "disconnected", peer |-> "none", case |-> "untracked"]
            /\ UNCHANGED <<trackedPeers, disconnectedPeers>>
       ELSE /\ disconnectedPeers' =
                 mapPut(disconnectedPeers, pID, disconnectedStat(trackedPeers[pID], now))
            /\ trackedPeers' = mapDelete(trackedPeers, pID)
            /\ last' = [op |-> "disconnected", peer |-> pID, case |-> "moved"]

\* disconnected(pID), called by any goroutine.
disconnected(pID) ==
    /\ disconnectedMaps(pID)
    /\ UNCHANGED <<now, hsVars, auxVars>>

\* gc's sweep of both maps under the lock.
gcMaps ==
    /\ disconnectedPeers' = gcDisconnected(disconnectedPeers, now)
    /\ trackedPeers' = gcTracked(trackedPeers)
    /\ last' = [op |-> "gc", peer |-> "none",
                case |-> gcCase(trackedPeers, disconnectedPeers, now)]

\* One tick of gc's ticker, in a tracker built without a pidstore
\* (persistPeers returns at once).
gc ==
    /\ gcMaps
    /\ UNCHANGED <<now, hsVars, auxVars>>

\* The outcome of blockPeer's two collaborator calls.
blockCase(blockErr, closeErr) ==
    IF blockErr
    THEN (IF closeErr THEN "bothErr" ELSE "blockErr")
    ELSE (IF closeErr THEN "closeErr" ELSE "ok")

blockPeerMapsOnSuccess(pID, blockErr, closeErr) ==
    /\ IF blockErr \/ closeErr
       THEN UNCHANGED <<trackedPeers, disconnectedPeers>>
       ELSE /\ trackedPeers' = mapDelete(trackedPeers, pID)
            /\ disconnectedPeers' = mapDelete(disconnectedPeers, pID)
    /\ last' = [op |-> "blockPeer",
                peer |-> IF pID \in (DOMAIN trackedPeers) \cup (DOMAIN disconnectedPeers)
                         THEN pID ELSE "none",
                case |-> blockCase(blockErr, closeErr)]
\* blockPeer(pID, reason) on the maps; blockErr, closeErr: whether
\* connGater.BlockPeer and Network().ClosePeer return an error.
blockPeerMaps(pID, blockErr, closeErr) ==
    /\ trackedPeers' = mapDelete(trackedPeers, pID)
    /\ disconnectedPeers' = mapDelete(disconnectedPeers, pID)
    /\ last' = [op |-> "blockPeer",
                peer |-> IF pID \in (DOMAIN trackedPeers) \cup (DOMAIN disconnectedPeers)
                         THEN pID ELSE "none",
                case |-> blockCase(blockErr, closeErr)]

\* blockPeer(pID, reason), called by any goroutine.
blockPeer(pID, blockErr, closeErr) ==
    /\ blockPeerMaps(pID, blockErr, closeErr)
    /\ UNCHANGED <<now, hsVars, auxVars>>

\* A holder of a *peerStat handed out by peers() changes the peer's score.
updateScore(pID, score) ==
    /\ \/ /\ pID \in DOMAIN trackedPeers
          /\ trackedPeers' = [trackedPeers EXCEPT ![pID].peerScore = score]
          /\ UNCHANGED disconnectedPeers
       \/ /\ pID \in DOMAIN disconnectedPeers
          /\ disconnectedPeers' = [disconnectedPeers EXCEPT ![pID].peerScore = score]
          /\ UNCHANGED trackedPeers
    /\ last' = [op |-> "updateScore", peer |-> "none", case |-> "none"]
    /\ UNCHANGED <<now, hsVars, auxVars>>

\* Time passes.
tick ==
    /\ now < MaxTime
    /\ now' = now + 1
    /\ last' = [op |-> "tick", peer |-> "none", case |-> "none"]
    /\ UNCHANGED <<trackedPeers, disconnectedPeers, hsVars, auxVars>>

(* ----------------------- PeerTracker: peers() --------------------------- *)

\* peers() hands out the *peerStat pointers held in trackedPeers. A record of
\* the result is `live` while the tracker still holds the same peerStat under
\* that peer, and then reads what the tracker's record reads; `stat` is the
\* value seen through the pointer.
InitSnap ==
    /\ snapshot = emptyMap

peersCopy(tracked) == [pID \in DOMAIN tracked |-> [live |-> FALSE, stat |-> tracked[pID]]]
\* peers := append(peers, stat) for every stat of p.trackedPeers
peersResult(tracked) == [pID \in DOMAIN tracked |-> [live |-> TRUE, stat |-> tracked[pID]]]

\* The peerStat the tracker holds for pID in either map.
held(tracked, disc, pID) == IF pID \in DOMAIN tracked THEN tracked[pID] ELSE disc[pID]

\* The result of peers() as read after a tracker step that replaced the
\* peerStat objects of the peers in `replaced` and left the maps tracked, disc.
snapshotAfter(snap, tracked, disc, replaced) ==
    [pID \in DOMAIN snap |->
        IF /\ snap[pID].live
           /\ pID \notin replaced
           /\ pID \in (DOMAIN tracked) \cup (DOMAIN disc)
        THEN [live |-> TRUE, stat |-> held(tracked, disc, pID)]
        ELSE [live |-> FALSE, stat |-> snap[pID].stat]]

\* peers()
peers ==
    /\ snapshot' = peersResult(trackedPeers)
    /\ last' = [op |-> "peers", peer |-> "none", case |-> "none"]
    /\ UNCHANGED <<ptVars, hsVars, loopVars, netVars, blocked>>

\* connected(pID) while a peers() result is held: a peer that is not in
\* disconnectedPeers gets a new peerStat, also when it is tracked already.
connectedHeld(pID, transient) ==
    /\ connectedMaps(pID, transient)
    /\ snapshot' = snapshotAfter(snapshot, trackedPeers', disconnectedPeers',
                                 IF trackedPeers' # trackedPeers
                                    /\ pID \notin DOMAIN disconnectedPeers
                                 THEN {pID} ELSE {})
    /\ UNCHANGED <<now, hsVars, loopVars, netVars, blocked>>

\* disconnected(pID) while a peers() result is held.
disconnectedHeld(pID) ==
    /\ disconnectedMaps(pID)
    /\ snapshot' = snapshotAfter(snapshot, trackedPeers', disconnectedPeers', {})
    /\ UNCHANGED <<now, hsVars, loopVars, netVars, blocked>>

\* A gc sweep while a peers() result is held.
gcHeld ==
    /\ gcMaps
    /\ snapshot' = snapshotAfter(snapshot, trackedPeers', disconnectedPeers', {})
    /\ UNCHANGED <<now, hsVars, loopVars, netVars, blocked>>

\* blockPeer(pID, reason) while a peers() result is held.
blockPeerHeld(pID, blockErr, closeErr) ==
    /\ blockPeerMaps(pID, blockErr, closeErr)
    /\ snapshot' = snapshotAfter(snapshot, trackedPeers', disconnectedPeers', {})
    /\ UNCHANGED <<now, hsVars, loopVars, netVars, blocked>>

\* The holder of a peers() result rewards a peer through its record.
rewardHeld(pID) ==
    /\ pID \in DOMAIN snapshot
    /\ snapshot[pID].stat.peerScore = defaultScore
    /\ snapshot' = [snapshot EXCEPT ![pID].stat.peerScore = defaultScore + 1]
    /\ IF snapshot[pID].live
       THEN IF pID \in DOMAIN trackedPeers
            THEN /\ trackedPeers' = [trackedPeers EXCEPT ![pID].peerScore = defaultScore + 1]
                 /\ UNCHANGED disconnectedPeers
            ELSE /\ disconnectedPeers' =
                      [disconnectedPeers EXCEPT ![pID].peerScore = defaultScore + 1]
                 /\ UNCHANGED trackedPeers
       ELSE UNCHANGED <<trackedPeers, disconnectedPeers>>
    /\ last' = [op |-> "updateScore", peer |-> "none", case |-> "none"]
    /\ UNCHANGED <<now, hsVars, loopVars, netVars, blocked>>

(* ------------- PeerTracker: track(), gc() and stop(ctx) ------------------ *)

\* cap(p.done), from make(chan struct{}, 2)
doneCap == 2

trackDeferredSkipped(d) == d
\* track's deferred `p.done <- struct{}{}`, run on each of its returns.
trackDeferred(d) == d + 1

stopWaitsOne == doneCap - 1
\* The number of tokens stop(ctx) takes from p.done: `i < cap(p.done)`.
stopWaits == doneCap

trackReturned == trackpc \in {"failed", "stopped"}
gcReturned == gcpc = "done"

\* The tracker is constructed and `go track()`, `go gc()` have been issued.
InitLoops ==
    /\ trackpc = "seed"
    /\ gcpc = "select"
    /\ ctxCancelled = FALSE
    /\ done = 0
    /\ stoppc = "idle"
    /\ stopI = 0
    /\ stopCtx = "live"
    /\ stopRet = "none"
    /\ stored = {}
    /\ conns = {}
    /\ gated = {}
    /\ events = <<>>
    /\ blocked = {}

Init ==
    /\ InitHS
    /\ InitPT
    /\ InitSnap
    /\ InitLoops
    /\ last = noOp

NextHS ==
    \/ \E h \in 0..(MaxHeight - 1) : SetHeight(h)
    \/ \E c \in Callers, h \in Heights : SubCheck(c, h)
    \/ \E c \in Callers : SubRegister(c)
    \/ \E c \in Callers : SubRecv(c)
    \/ \E c \in Callers : Cancel(c)
    \/ \E c \in Callers : SubCtxDone(c)
    \/ \E c \in Callers : SubUnregister(c)
    \/ \E c \in Callers : SubReturn(c)
    \/ \E headers \in pubInputs : PubCall(headers)
    \/ PubDeliver

SpecHS == Init /\ [][NextHS]_vars

NextPT ==
    \/ \E p \in Peers \cup {hostID}, transient \in BOOLEAN : connected(p, transient)
    \/ \E p \in Peers : disconnected(p)
    \/ gc
    \/ \E p \in Peers, blockErr \in BOOLEAN, closeErr \in BOOLEAN :
          blockPeer(p, blockErr, closeErr)
    \/ \E p \in Peers, s \in Scores : updateScore(p, s)
    \/ tick

SpecPT == Init /\ [][NextPT]_vars

\* track, lines 75-79: p.connected for the connections that exist already
\* (none, or one to the peer conn).
trackSeed(conn, transient) ==
    /\ trackpc = "seed"
    /\ trackpc' = "subscribe"
    /\ IF conn = "none"
       THEN UNCHANGED <<trackedPeers, disconnectedPeers, last>>
       ELSE connectedMaps(conn, transient)
    /\ UNCHANGED <<now, hsVars, snapVars, netVars, blocked>>
    /\ UNCHANGED <<gcpc, ctxCancelled, done, stoppc, stopI, stopCtx, stopRet, stored>>

\* track, lines 81-85: Subscribe; on an error track logs and returns.
trackSubscribe(subErr) ==
    /\ trackpc = "subscribe"
    /\ IF subErr
       THEN /\ trackpc' = "failed"
            /\ done' = trackDeferred(done)
       ELSE /\ trackpc' = "select"
            /\ UNCHANGED done
    /\ UNCHANGED <<ptVars, last, hsVars, snapVars, netVars, blocked>>
    /\ UNCHANGED <<gcpc, ctxCancelled, stoppc, stopI, stopCtx, stopRet, stored>>

\* track, lines 96-102: the switch on ev.Connectedness.
trackHandle(connectedness, pID, transient) ==
    /\ trackpc = "select"
    /\ IF connectedness = "Connected"
       THEN connectedMaps(pID, transient)
       ELSE disconnectedMaps(pID)
    /\ UNCHANGED <<now, hsVars, snapVars, blocked, loopVars>>

\* track, lines 95-102: the select takes an event from subs.Out(), whatever
\* the host has emitted.
trackEvent(connectedness, pID, transient) ==
    /\ trackHandle(connectedness, pID, transient)
    /\ UNCHANGED netVars

\* track, lines 95-102: the select takes the oldest event of the buffer.
trackTake(transient) ==
    /\ events # <<>>
    /\ trackHandle(events[1].connectedness, events[1].peer, transient)
    /\ events' = Tail(events)
    /\ UNCHANGED <<conns, gated>>

\* track, lines 89-94: the select takes p.ctx.Done(); subs.Close(), return.
trackStop ==
    /\ trackpc = "select"
    /\ ctxCancelled
    /\ trackpc' = "stopped"
    /\ done' = trackDeferred(done)
    /\ UNCHANGED <<ptVars, last, hsVars, snapVars, netVars, blocked>>
    /\ UNCHANGED <<gcpc, ctxCancelled, stoppc, stopI, stopCtx, stopRet, stored>>

\* gc, lines 185-206: the select takes a tick; the sweep, then persistPeers
\* with the IDs the sweep kept (putErr: pidstore.Put fails, which is logged).
gcTick(putErr) ==
    /\ gcpc = "select"
    /\ gcMaps
    /\ stored' = IF putErr THEN stored ELSE DOMAIN trackedPeers'
    /\ UNCHANGED <<now, hsVars, snapVars, netVars, blocked>>
    /\ UNCHANGED <<trackpc, gcpc, ctxCancelled, done, stoppc, stopI, stopCtx, stopRet>>

\* gc, lines 182-184: the select takes p.ctx.Done().
gcStop ==
    /\ gcpc = "select"
    /\ ctxCancelled
    /\ gcpc' = "done"
    /\ done' = done + 1
    /\ UNCHANGED <<ptVars, last, hsVars, snapVars, netVars, blocked>>
    /\ UNCHANGED <<trackpc, ctxCancelled, stoppc, stopI, stopCtx, stopRet, stored>>

\* stop(ctx), line 224: p.cancel().
stopCall ==
    /\ stoppc = "idle"
    /\ stoppc' = "wait"
    /\ ctxCancelled' = TRUE
    /\ UNCHANGED <<ptVars, last, hsVars, snapVars, netVars, blocked>>
    /\ UNCHANGED <<trackpc, gcpc, done, stopI, stopCtx, stopRet, stored>>

\* stop(ctx), lines 226-228: the select takes a token from p.done; after the
\* last one the loop ends and stop returns nil.
stopRecv ==
    /\ stoppc = "wait"
    /\ done > 0
    /\ done' = done - 1
    /\ stopI' = stopI + 1
    /\ IF stopI + 1 >= stopWaits
       THEN stoppc' = "returned" /\ stopRet' = "nil"
       ELSE UNCHANGED <<stoppc, stopRet>>
    /\ UNCHANGED <<ptVars, last, hsVars, snapVars, netVars, blocked>>
    /\ UNCHANGED <<trackpc, gcpc, ctxCancelled, stopCtx, stored>>

\* stop(ctx), lines 229-230: the select takes ctx.Done(); return ctx.Err().
stopCtxDone ==
    /\ stoppc = "wait"
    /\ stopCtx # "live"
    /\ stoppc' = "returned"
    /\ stopRet' = "ctxErr"
    /\ UNCHANGED <<ptVars, last, hsVars, snapVars, netVars, blocked>>
    /\ UNCHANGED <<trackpc, gcpc, ctxCancelled, done, stopI, stopCtx, stored>>

\* The caller's ctx is cancelled, before the call or while stop waits.
stopCtxCancel ==
    /\ stoppc # "returned"
    /\ stopCtx = "live"
    /\ stopCtx' = IF done + stopI < doneCap THEN "early" ELSE "late"
    /\ UNCHANGED <<ptVars, last, hsVars, snapVars, netVars, blocked>>
    /\ UNCHANGED <<trackpc, gcpc, ctxCancelled, done, stoppc, stopI, stopRet, stored>>

\* A holder of a tracked peer's record rewards it.
rewardTracked(pID) ==
    /\ pID \in DOMAIN trackedPeers
    /\ trackedPeers[pID].peerScore = defaultScore
    /\ trackedPeers' = [trackedPeers EXCEPT ![pID].peerScore = defaultScore + 1]
    /\ last' = [op |-> "updateScore", peer |-> "none", case |-> "none"]
    /\ UNCHANGED <<disconnectedPeers, now, hsVars, auxVars>>

\* The buffer of subs.Out() after the host emitted an event: the subscription
\* exists from Subscribe until track closes it.
emitted(connectedness, pID) ==
    IF trackpc = "select"
    THEN Append(events, [connectedness |-> connectedness, peer |-> pID])
    ELSE events

\* An emit blocks while the buffer of the subscription is full.
canEmit == trackpc = "select" => Len(events) < MaxEvents

\* The host connects to a peer the gater does not block.
netConnect(pID) ==
    /\ pID \notin conns
    /\ pID \notin gated
    /\ canEmit
    /\ conns' = conns \cup {pID}
    /\ events' = emitted("Connected", pID)
    /\ UNCHANGED <<gated, blocked, ptVars, last, hsVars, snapVars, loopVars>>

\* The connection to a peer is lost.
netDisconnect(pID) ==
    /\ pID \in conns
    /\ canEmit
    /\ conns' = conns \ {pID}
    /\ events' = emitted("NotConnected", pID)
    /\ UNCHANGED <<gated, blocked, ptVars, last, hsVars, snapVars, loopVars>>

\* blockPeer(pID, reason) with the host and the gater at work: BlockPeer, when
\* it succeeds, gates the peer; ClosePeer, when it succeeds, closes the
\* connection to it; then the deletes. The call has returned once the step is
\* taken.
blockPeerReturns(pID, blockErr, closeErr) ==
    /\ (~closeErr /\ pID \in conns) => canEmit
    /\ gated' = IF blockErr THEN gated ELSE gated \cup {pID}
    /\ conns' = IF closeErr THEN conns ELSE conns \ {pID}
    /\ events' = IF ~closeErr /\ pID \in conns
                 THEN emitted("NotConnected", pID) ELSE events
    /\ blockPeerMaps(pID, blockErr, closeErr)
    /\ blocked' = blocked \cup {pID}
    /\ UNCHANGED <<now, hsVars, snapVars, loopVars>>

NextSnap ==
    \/ peers
    \/ \E p \in Peers, transient \in BOOLEAN : connectedHeld(p, transient)
    \/ \E p \in Peers : disconnectedHeld(p)
    \/ gcHeld
    \/ \E p \in Peers, blockErr \in BOOLEAN, closeErr \in BOOLEAN :
          blockPeerHeld(p, blockErr, closeErr)
    \/ \E p \in Peers : rewardHeld(p)

SpecSnap == Init /\ [][NextSnap]_vars

\* The steps of track, gc and stop.
NextStop ==
    \/ \E conn \in Peers \cup {"none"}, transient \in BOOLEAN : trackSeed(conn, transient)
    \/ \E subErr \in BOOLEAN : trackSubscribe(subErr)
    \/ \E connectedness \in {"Connected", "NotConnected"}, p \in Peers, transient \in BOOLEAN :
          trackEvent(connectedness, p, transient)
    \/ trackStop
    \/ \E putErr \in BOOLEAN : gcTick(putErr)
    \/ gcStop
    \/ stopCall
    \/ stopRecv
    \/ stopCtxDone
    \/ stopCtxCancel

\* The same while the holders of the tracked peers' records reward them.
NextLoops ==
    \/ NextStop
    \/ \E p \in Peers : rewardTracked(p)

SpecLoops == Init /\ [][NextLoops]_vars

\* track and gc at work while peers get blocked.
NextBlock ==
    \/ trackSeed("none", FALSE)
    \/ \E subErr \in BOOLEAN : trackSubscribe(subErr)
    \/ \E p \in Peers : netConnect(p)
    \/ \E p \in Peers : netDisconnect(p)
    \/ \E transient \in BOOLEAN : trackTake(transient)
    \/ \E putErr \in BOOLEAN : gcTick(putErr)
    \/ \E p \in Peers, blockErr \in BOOLEAN, closeErr \in BOOLEAN :
          blockPeerReturns(p, blockErr, closeErr)

SpecBlock == Init /\ [][NextBlock]_vars

\* The scheduler runs every goroutine that can take a step, and a select whose
\* Done case stays ready takes it in the end (Go picks among the ready cases at
\* random). Events, ticks, the stop call and the cancellation of its ctx come
\* from outside and are promised by nothing.
FairLoops ==
    /\ WF_vars(\E conn \in Peers \cup {"none"}, transient \in BOOLEAN : trackSeed(conn, transient))
    /\ WF_vars(\E subErr \in BOOLEAN : trackSubscribe(subErr))
    /\ WF_vars(trackStop)
    /\ WF_vars(gcStop)
    /\ WF_vars(stopRecv)

SpecStopFair == Init /\ [][NextStop]_vars /\ FairLoops

(* ------------------------- claims: heightSub --------------------------- *)

\* C1: a Sub call waiting on H whose own context is not cancelled has the header
\* of height H in its channel, ready to be returned, once the Pub call that
\* covers H has completed; it is not left blocked with nothing to receive.
C1_SubFulfilledAfterPub ==
    \A c \in Callers :
        (/\ ~fatal
         /\ pubpc = "idle"
         /\ pc[c] = "select"
         /\ ~ctxDone[c]
         /\ height >= subHeight[c])
        => chan[c] = <<Header(subHeight[c])>>

\* C2: the step that completes a Pub of the headers from..to hands every Sub
\* call blocked on a height k of from..to the header of height k, on the
\* single-header and the ranged path, and Height() is `to`.
C2_PubDeliversRange ==
    [][(pubpc = "deliver" /\ pubpc' = "idle")
        => /\ height' = pubHeaders[Len(pubHeaders)].height
           /\ \A c \in Callers :
                (/\ pc[c] = "select"
                 /\ subHeight[c] >= pubHeaders[1].height
                 /\ subHeight[c] <= pubHeaders[Len(pubHeaders)].height)
                => chan'[c] = <<Header(subHeight[c])>>]_vars

\* C3: a Sub(ctx, H) call made while Height() >= H returns errElapsedHeight in
\* its first step, without waiting and without touching heightReqs.
C3_ElapsedRejected ==
    [][\A c \in Callers :
        (pc[c] = "idle" /\ pc'[c] # "idle" /\ height >= subHeight'[c])
        => /\ pc'[c] = "done"
           /\ ret'[c].hdr = zero
           /\ ret'[c].err = "errElapsedHeight"
           /\ heightReqs' = heightReqs
           /\ chan' = chan]_vars

\* C3 witness: a call for a height above 0 was rejected by the first check while
\* another caller is registered.
C3_Witness ==
    \E c \in Callers :
        /\ pc[c] = "done"
        /\ ret[c].via = "check"
        /\ ret[c].err = "errElapsedHeight"
        /\ subHeight[c] > 0
        /\ DOMAIN heightReqs # {}

\* heightReqs without the channel of caller c; a bucket left empty is no key.
withoutChan(reqs, c) ==
    LET keep(k) == SelectSeq(reqs[k], LAMBDA x : x # c)
    IN  [k \in {k \in DOMAIN reqs : keep(k) # <<>>} |-> keep(k)]

\* C4: the step in which a cancelled Sub call removes its registration takes
\* the caller's own channel out of heightReqs and leaves every other
\* registration, those on the same height included, in place.
C4_CancelRoundTrip ==
    [][\A c \in Callers :
        (pc[c] = "unreg" /\ pc'[c] = "done")
        => heightReqs' = withoutChan(heightReqs, c)]_vars

\* C5: a Pub call with an empty list, or with a first header whose height is not
\* Height()+1, changes neither Height() nor heightReqs nor any channel nor any
\* caller's position or result, and in the second case it is fatal.
C5_PubRejectsDisorder ==
    [][(/\ PubCall(pubHeaders')
        /\ (Len(pubHeaders') = 0 \/ pubHeaders'[1].height # height + 1))
        => /\ UNCHANGED <<height, heightReqs, chan, pc, ret, pubpc>>
           /\ (Len(pubHeaders') > 0 => fatal')
           /\ (Len(pubHeaders') = 0 => ~fatal')]_vars

\* C5 witness: a Pub out of order was fatal while a Sub call was waiting.
C5_Witness ==
    /\ fatal
    /\ Len(pubHeaders) > 0
    /\ pubHeaders[1].height # height + 1
    /\ \E c \in Callers : pc[c] = "select" /\ chan[c] = <<>>
    /\ DOMAIN heightReqs # {}

(* ------------------------ claims: PeerTracker -------------------------- *)

\* C6: no peer identity is a key of both trackedPeers and disconnectedPeers.
C6_MapsDisjoint == (DOMAIN trackedPeers) \cap (DOMAIN disconnectedPeers) = {}

\* C6 witness: a peer has just moved back from disconnectedPeers while another
\* peer is disconnected.
C6_Witness ==
    /\ last.op = "connected" /\ last.case = "moved"
    /\ last.peer \in DOMAIN trackedPeers
    /\ DOMAIN disconnectedPeers # {}

\* C7: connected(p) for a peer p already in trackedPeers leaves both maps, and
\* with them p's peerStat and its score, as they were.
C7_ConnectedIdempotent ==
    [][\A p \in Peers :
        (p \in DOMAIN trackedPeers /\ connected(p, FALSE))
        => UNCHANGED <<trackedPeers, disconnectedPeers>>]_vars

\* C8: the score of a peer is carried by its record across both moves:
\* disconnected(p) puts p in disconnectedPeers with the score it had in
\* trackedPeers, and connected(p) puts it back in trackedPeers with the score it
\* had in disconnectedPeers, not with the default score.
C8_ScoreCarried ==
    [][\A p \in Peers :
        /\ (last'.op = "disconnected" /\ last'.case = "moved" /\ last'.peer = p)
           => /\ p \in DOMAIN disconnectedPeers'
              /\ p \notin DOMAIN trackedPeers'
              /\ disconnectedPeers'[p].peerScore = trackedPeers[p].peerScore
        /\ (last'.op = "connected" /\ p \in DOMAIN disconnectedPeers
                /\ p \in DOMAIN trackedPeers')
           => trackedPeers'[p].peerScore = disconnectedPeers[p].peerScore]_vars

\* C8 witness: a peer whose score is above the default has just been moved back
\* to trackedPeers before its prune deadline passed.
C8_Witness ==
    /\ last.op = "connected" /\ last.case = "moved"
    /\ last.peer \in DOMAIN trackedPeers
    /\ trackedPeers[last.peer].peerScore > defaultScore
    /\ trackedPeers[last.peer].pruneDeadline >= now

\* C9 as stated: a sweep that runs once maxAwaitingTime has elapsed since the
\* peer was moved to disconnectedPeers (now >= pruneDeadline) removes the peer.
C9_PrunedOnceElapsed ==
    [][\A p \in Peers :
        (/\ last'.op = "gc"
         /\ p \in DOMAIN disconnectedPeers
         /\ now >= disconnectedPeers[p].pruneDeadline)
        => (p \notin DOMAIN disconnectedPeers' /\ p \notin DOMAIN trackedPeers')]_vars

\* C9 amended: disconnected(p) at time t sets pruneDeadline = t + maxAwaitingTime,
\* the deadline stays as set while the peer is in disconnectedPeers, and a sweep
\* that runs after more than maxAwaitingTime has elapsed (now > pruneDeadline)
\* leaves the peer in neither map.
C9_PrunedAfterDeadline ==
    [][\A p \in Peers :
        /\ (last'.op = "disconnected" /\ last'.case = "moved" /\ last'.peer = p)
           => /\ p \in DOMAIN disconnectedPeers'
              /\ disconnectedPeers'[p].pruneDeadline = now + maxAwaitingTime
        /\ (p \in DOMAIN disconnectedPeers /\ p \in DOMAIN disconnectedPeers')
           => disconnectedPeers'[p].pruneDeadline = disconnectedPeers[p].pruneDeadline
        /\ (/\ last'.op = "gc"
            /\ p \in DOMAIN disconnectedPeers
            /\ now > disconnectedPeers[p].pruneDeadline)
           => (p \notin DOMAIN disconnectedPeers' /\ p \notin DOMAIN trackedPeers')]_vars

\* C9 witness: a sweep has just run after the deadline of a peer disconnected
\* earlier, and a peer disconnected later is still kept.
C9_Witness ==
    /\ last.op = "gc" /\ last.case = "expired"
    /\ \E p \in DOMAIN disconnectedPeers : disconnectedPeers[p].pruneDeadline >= now

\* C10: after a sweep every peer in trackedPeers has a score above the default;
\* a tracked peer whose score is at or below the default is removed by the sweep
\* and is not put in disconnectedPeers.
C10_SweepKeepsRewarded ==
    [][last'.op = "gc"
        => /\ \A p \in DOMAIN trackedPeers' :
                trackedPeers'[p].peerScore > defaultScore
           /\ \A p \in DOMAIN trackedPeers :
                trackedPeers[p].peerScore <= defaultScore
                => (p \notin DOMAIN trackedPeers' /\ p \notin DOMAIN disconnectedPeers')
           /\ \A p \in DOMAIN trackedPeers :
                trackedPeers[p].peerScore > defaultScore
                => (p \in DOMAIN trackedPeers' /\ trackedPeers'[p] = trackedPeers[p])]_vars

\* C10 witness: a sweep has just removed a tracked peer for its score and kept
\* a rewarded one, no peer being disconnected.
C10_Witness ==
    /\ last.op = "gc" /\ last.case = "lowScore"
    /\ DOMAIN trackedPeers # {}
    /\ DOMAIN disconnectedPeers = {}

\* C11: when blockPeer(p, reason) returns, p is in neither trackedPeers nor
\* disconnectedPeers, whichever of the two it was in before, and the other
\* peers' records are as they were, for every combination of success and
\* failure of connGater.BlockPeer and of Network().ClosePeer.
C11_BlockPeerRemoves ==
    [][last'.op = "blockPeer" =>
       \A p \in Peers : \A blockErr, closeErr \in BOOLEAN :
          (last'.case = blockCase(blockErr, closeErr) /\ blockPeerMaps(p, blockErr, closeErr))
          =>  /\ p \notin DOMAIN trackedPeers'
              /\ p \notin DOMAIN disconnectedPeers'
              /\ \A q \in Peers \ {p} :
                    /\ q \in DOMAIN trackedPeers' <=> q \in DOMAIN trackedPeers
                    /\ q \in DOMAIN disconnectedPeers' <=> q \in DOMAIN disconnectedPeers]_vars

\* blockPeer has just removed a peer's record although both collaborator calls
\* failed, and the other peers are still held, one in each map.
C11_Witness ==
    /\ last.op = "blockPeer"
    /\ last.case = "bothErr"
    /\ last.peer \in Peers
    /\ last.peer \notin (DOMAIN trackedPeers) \cup (DOMAIN disconnectedPeers)
    /\ DOMAIN trackedPeers # {}
    /\ DOMAIN disconnectedPeers # {}

\* C12: connected(p) called while len(trackedPeers) + len(disconnectedPeers)
\* exceeds maxPeerTrackerSize and len(trackedPeers) > len(disconnectedPeers) is
\* rejected: both maps are exactly as before, p added to neither and a p held
\* in disconnectedPeers left there untouched.
C12_FullRejects ==
    [][( /\ last'.op = "connected"
         /\ Cardinality(DOMAIN trackedPeers) + Cardinality(DOMAIN disconnectedPeers)
                > maxPeerTrackerSize
         /\ Cardinality(DOMAIN trackedPeers) > Cardinality(DOMAIN disconnectedPeers) ) =>
       \A p \in Peers \cup {hostID} : \A transient \in BOOLEAN :
          connected(p, transient)
          => /\ trackedPeers' = trackedPeers
             /\ disconnectedPeers' = disconnectedPeers
             /\ last'.case \in {"self", "transient", "full"}]_vars

\* connected has just been rejected for want of room, for a peer held in
\* neither map or for one that stays in disconnectedPeers.
C12_Witness ==
    /\ last.op = "connected"
    /\ last.case = "full"
    /\ last.peer \in Peers \ DOMAIN trackedPeers
    /\ Cardinality(DOMAIN trackedPeers) + Cardinality(DOMAIN disconnectedPeers)
           > maxPeerTrackerSize

C19_SizeBounded ==
    Cardinality(DOMAIN trackedPeers) + Cardinality(DOMAIN disconnectedPeers)
        <= maxPeerTrackerSize

registered(reqs) == UNION {{reqs[k][i] : i \in 1..Len(reqs[k])} : k \in DOMAIN reqs}

\* C16: every result slot created by Sub receives at most one header over its
\* life: a slot is registered once, it is empty while it is registered, and the
\* Pub that fills it removes the registration in the same critical section; so
\* a Pub delivery under the lock finds every slot it sends to empty and never
\* blocks.
C16_SlotFilledOnce ==
    /\ \A c \in Callers : Len(chan[c]) <= 1
    /\ \A c \in registered(heightReqs) :
          /\ chan[c] = <<>>
          /\ pc[c] \in {"select", "unreg"}
    /\ \A k \in DOMAIN heightReqs : \A i, j \in 1..Len(heightReqs[k]) :
          heightReqs[k][i] = heightReqs[k][j] => i = j
    /\ \A k1, k2 \in DOMAIN heightReqs :
          k1 # k2 => \A i \in 1..Len(heightReqs[k1]) : \A j \in 1..Len(heightReqs[k2]) :
                        heightReqs[k1][i] # heightReqs[k2][j]
    /\ pubpc = "deliver" => pubCanSend(heightReqs, chan, pubHeaders)

\* One Pub has filled the slots of two waiting callers, one of them already
\* cancelled, and removed their registrations.
C16_Witness ==
    \E c1, c2 \in Callers :
        /\ c1 # c2
        /\ pc[c1] = "select" /\ chan[c1] # <<>> /\ ctxDone[c1]
        /\ pc[c2] = "select" /\ chan[c2] # <<>>
        /\ subHeight[c1] # subHeight[c2]
        /\ pubpc = "idle"
        /\ heightReqs = emptyMap

\* The operations of the tracker that C13 names.
trackerOps == {"connected", "disconnected", "gc", "blockPeer"}

C14_StopNilAfterLoops ==
    [][ stopRet = "nil" =>
          /\ trackReturned
          /\ gcReturned
          /\ done = 0
          /\ UNCHANGED <<disconnectedPeers, stored, trackpc, gcpc>>
          /\ trackedPeers' # trackedPeers => \E p \in Peers : rewardTracked(p) ]_vars

\* stop has returned nil after the loops changed the maps and the pidstore.
C14_Witness ==
    /\ stopRet = "nil"
    /\ trackpc = "stopped"
    /\ gcpc = "done"
    /\ stored # {}
    /\ DOMAIN disconnectedPeers # {}

\* C17 as claimed: once stop(ctx) is called both loops eventually return, also
\* when track had returned already because Subscribe failed, and stop returns:
\* nil when ctx is never cancelled, the context's error when ctx is cancelled
\* before both tokens have arrived.
C17_StopOutcome ==
    /\ (stoppc = "wait") ~> (trackReturned /\ gcReturned)
    /\ (stoppc = "wait") ~> (stoppc = "returned")
    /\ [](stopRet = "ctxErr" => stopCtx # "live")
    /\ [](stoppc = "returned" /\ stopCtx = "early" => stopRet = "ctxErr")

\* C17, amended: once stop(ctx) is called both loops eventually return, also
\* when track had returned already because Subscribe failed, and stop
\* eventually returns; it returns the context's error only if ctx was
\* cancelled, so it returns nil when ctx is never cancelled. With ctx cancelled
\* before both tokens have arrived, stop returns the context's error or, its
\* select having taken both tokens, nil.
C17_StopTerminates ==
    /\ (stoppc = "wait") ~> (trackReturned /\ gcReturned)
    /\ (stoppc = "wait") ~> (stoppc = "returned")
    /\ [](stopRet = "ctxErr" => stopCtx # "live")
    /\ [](stoppc = "returned" => stopRet \in {"nil", "ctxErr"})

\* stop has returned nil with its ctx never cancelled, the token of track
\* being the one it sent when Subscribe failed.
C17_Witness ==
    /\ stopRet = "nil"
    /\ stopCtx = "live"
    /\ trackpc = "failed"
    /\ gcpc = "done"

\* C20: once blockPeer(p) has returned, p is never again in trackedPeers (and
\* so never again in a result of peers()), whatever connectivity events for p
\* the track loop still handles.
C20_BlockedStaysOut ==
    \A p \in blocked : p \notin DOMAIN trackedPeers

=============================================================================
